---- MODULE Spec2Model ----
(***************************************************************************)
(* Stock and price synchronisation of a vendor feed to two marketplaces:   *)
(* seller.py (Ozon) and market.py (Yandex Market).                          *)
(*                                                                         *)
(* Python strings whose characters matter (raw quantities, raw prices) are *)
(* sequences of one-character strings.  The Cyrillic currency text of a    *)
(* price ("руб.") is written with the letters r, u, b: like the original   *)
(* letters they are characters outside 0-9.  The feed's column names       *)
(* "Код", "Количество", "Цена" are the record fields Kod, Kolichestvo and  *)
(* Tsena.  Offer codes are strings already, so str(code) leaves them as    *)
(* they are.                                                               *)
(***************************************************************************)
EXTENDS Integers, Sequences, FiniteSets, TLC

VARIABLES
    pc,              \* position of the running entry point or call
    program,         \* "seller" or "market": which module's code runs
    campaign,        \* campaign the orchestrator works on ("OZON", "FBS", "DBS")
    offer_ids,       \* the caller's catalog list (create_stocks mutates it)
    catalog0,        \* the catalog list as it was fetched / passed in
    watch_remnants,  \* the feed rows
    stocks,          \* reconciled stock records
    prices,          \* reconciled price records
    pending,         \* list(divide(...)) still to be submitted by the for loop
    sent,            \* HTTP requests submitted so far, in order
    printed,         \* messages printed by the except clauses
    exc,             \* exception being propagated or handled ("none" if none)
    lst,             \* divide: argument
    n,               \* divide: argument
    chunks,          \* divide: the chunks yielded
    price,           \* price_conversion: argument
    converted,       \* price_conversion: result
    not_empty,       \* upload_stocks: the records with a non-zero quantity
    last_id,         \* seller.get_offer_ids: cursor of the next request
    page,            \* market.get_offer_ids: cursor of the next request
    product_list,    \* get_offer_ids: items accumulated so far
    total,           \* seller.get_offer_ids: total of the last response
    endpoint,        \* behaviour of the listing endpoint being paged
    responses        \* results of get_product_list received so far, in order

vars == <<pc, program, campaign, offer_ids, catalog0, watch_remnants, stocks,
          prices, pending, sent, printed, exc, lst, n, chunks, price, converted,
          not_empty, last_id, page, product_list, total, endpoint, responses>>

mainVars == <<campaign, pending, sent, printed, exc>>
reconcileVars == <<program, offer_ids, catalog0, watch_remnants, stocks, prices>>
divideVars == <<lst, n, chunks>>
priceVars == <<price, converted>>
fetchVars == <<last_id, page, product_list, total, endpoint, responses>>

(***************************************************************************)
(* Bounds of the model.                                                    *)
(***************************************************************************)
MaxFeed == 2         \* feed rows per run
MaxCatalog == 3      \* offer ids per fetched catalog
MaxLen == 4          \* divide: length of the list
MaxN == 3            \* divide: chunk size
MaxPriceLen == 3     \* price_conversion: length of the enumerated strings
\* Batch sizes of the upload loops, scaled down so that a run has several
\* batches: the code uses 100 (Ozon stocks), 900 (Ozon prices) and 2000
\* (Yandex stocks).
OzonStockBatch == 2
OzonPriceBatch == 1
MarketStockBatch == 2
\* and, in the upload_prices coroutines, 1000 (Ozon) and 500 (Yandex)
OzonUploadPriceBatch == 2
MarketPriceBatch == 1
\* Page sizes of the listing endpoints, scaled down: the code asks for 1000
\* (Ozon) and 200 (Yandex) items per page.
OzonPageLimit == 2
MarketPageLimit == 1
MaxRequests == 3     \* requests answered by an endpoint that may page forever

(***************************************************************************)
(* Python built-ins used by the code.                                      *)
(***************************************************************************)
Digits == {"0", "1", "2", "3", "4", "5", "6", "7", "8", "9"}

DigitValue(c) ==
    CASE c = "0" -> 0 [] c = "1" -> 1 [] c = "2" -> 2 [] c = "3" -> 3
      [] c = "4" -> 4 [] c = "5" -> 5 [] c = "6" -> 6 [] c = "7" -> 7
      [] c = "8" -> 8 [] c = "9" -> 9

\* x in list
In(x, list) == \E i \in 1..Len(list) : list[i] = x

\* list.remove(x) leaving the list as it is
Remove_none(list, x) == list

\* list.remove(x) taking out every occurrence of x
Remove_all(list, x) == SelectSeq(list, LAMBDA y : y # x)

\* list.remove(x): the list without the first occurrence of x
RECURSIVE Remove(_, _)
Remove(list, x) ==
    IF list = <<>> THEN <<>>
    ELSE IF Head(list) = x THEN Tail(list)
    ELSE <<Head(list)>> \o Remove(Tail(list), x)

\* int(s) for a string of the model's alphabet: ValueError unless s is a
\* non-empty run of decimal digits
IntRaises(s) == s = <<>> \/ \E i \in 1..Len(s) : s[i] \notin Digits

RECURSIVE IntValue(_)
IntValue(s) ==
    IF s = <<>> THEN 0
    ELSE 10 * IntValue(SubSeq(s, 1, Len(s) - 1)) + DigitValue(s[Len(s)])

\* s.split(".")[0]: the characters before the first "."
RECURSIVE SplitDotFirst(_)
SplitDotFirst(s) ==
    IF s = <<>> THEN <<>>
    ELSE IF Head(s) = "." THEN <<>>
    ELSE <<Head(s)>> \o SplitDotFirst(Tail(s))

\* re.sub("[^0-9]", "", s)
RECURSIVE SubNonDigits(_)
SubNonDigits(s) ==
    IF s = <<>> THEN <<>>
    ELSE IF Head(s) \in Digits THEN <<Head(s)>> \o SubNonDigits(Tail(s))
    ELSE SubNonDigits(Tail(s))

\* lst[i: j] with 0 <= i <= j (0-based, j exclusive, clipped to the length)
Slice(list, i, j) ==
    SubSeq(list, i + 1, IF j < Len(list) THEN j ELSE Len(list))

(***************************************************************************)
(* seller.price_conversion and seller.divide                               *)
(***************************************************************************)
price_conversion_mutant(p) == SubNonDigits(p)

price_conversion(p) == SubNonDigits(SplitDotFirst(p))

\* the chunks yielded for i in range(start, len(lst), n)
RECURSIVE divide_from(_, _, _)
divide_from(list, size, i) ==
    IF i >= Len(list) THEN <<>>
    ELSE <<Slice(list, i, i + size)>> \o divide_from(list, size, i + size)

divide_mutant(list, size) ==
    IF Len(list) % size = 0 THEN divide_from(list, size, 0)
    ELSE divide_from(SubSeq(list, 1, Len(list) - (Len(list) % size)), size, 0)

\* list(divide(lst, n))
divide(list, size) == divide_from(list, size, 0)

(***************************************************************************)
(* seller.create_stocks.  The result carries the list returned (stocks),   *)
(* the state of the caller's offer_ids list after the call, and whether    *)
(* int() raised (then nothing is returned; offer_ids keeps the removals    *)
(* made before the exception).                                             *)
(***************************************************************************)
\* the if/elif/else on count: the stock value, and whether int() raises
seller_stock_raises(count) ==
    count # <<">", "1", "0">> /\ count # <<"1">> /\ IntRaises(count)

\* seller_stock reporting ">10" as 10
seller_stock_mutant(count) ==
    IF count = <<">", "1", "0">> THEN 10
    ELSE IF count = <<"1">> THEN 0
    ELSE IntValue(count)

seller_stock(count) ==
    IF count = <<">", "1", "0">> THEN 100
    ELSE IF count = <<"1">> THEN 0
    ELSE IntValue(count)

RECURSIVE seller_stocks_loop(_, _, _)
seller_stocks_loop(rows, ids, acc) ==
    IF rows = <<>> THEN [raised |-> FALSE, stocks |-> acc, offer_ids |-> ids]
    ELSE LET watch == Head(rows)
             count == watch.Kolichestvo
         IN  IF In(watch.Kod, ids)
             THEN IF seller_stock_raises(count)
                  THEN [raised |-> TRUE, stocks |-> acc, offer_ids |-> ids]
                  ELSE LET stock == seller_stock(count)
                       IN  seller_stocks_loop(
                               Tail(rows),
                               Remove(ids, watch.Kod),
                               Append(acc, [offer_id |-> watch.Kod, stock |-> stock]))
             ELSE seller_stocks_loop(Tail(rows), ids, acc)

\* seller_create_stocks without the zero records of the unmatched ids
seller_create_stocks_nofill(rows, ids) == seller_stocks_loop(rows, ids, <<>>)

seller_create_stocks(rows, ids) ==
    LET matched == seller_stocks_loop(rows, ids, <<>>)
    IN  IF matched.raised THEN matched
        ELSE [raised |-> FALSE,
              stocks |-> matched.stocks \o
                         [i \in 1..Len(matched.offer_ids) |->
                             [offer_id |-> matched.offer_ids[i], stock |-> 0]],
              offer_ids |-> matched.offer_ids]

(***************************************************************************)
(* market.create_stocks: the same reconciliation, with the Yandex record   *)
(* shape.  date is the clock reading taken once at the start of the call.  *)
(***************************************************************************)
market_record(sku, warehouse_id, count, date) ==
    [sku |-> sku, warehouseId |-> warehouse_id,
     items |-> <<[count |-> count, type |-> "FIT", updatedAt |-> date]>>]

market_stock_raises(count) ==
    count # <<">", "1", "0">> /\ count # <<"1">> /\ IntRaises(count)

market_stock(count) ==
    IF count = <<">", "1", "0">> THEN 100
    ELSE IF count = <<"1">> THEN 0
    ELSE IntValue(count)

RECURSIVE market_stocks_loop(_, _, _, _, _)
market_stocks_loop(rows, ids, warehouse_id, date, acc) ==
    IF rows = <<>> THEN [raised |-> FALSE, stocks |-> acc, offer_ids |-> ids]
    ELSE LET watch == Head(rows)
             count == watch.Kolichestvo
         IN  IF In(watch.Kod, ids)
             THEN IF market_stock_raises(count)
                  THEN [raised |-> TRUE, stocks |-> acc, offer_ids |-> ids]
                  ELSE LET stock == market_stock(count)
                       IN  market_stocks_loop(
                               Tail(rows),
                               Remove(ids, watch.Kod),
                               warehouse_id, date,
                               Append(acc, market_record(watch.Kod, warehouse_id,
                                                         stock, date)))
             ELSE market_stocks_loop(Tail(rows), ids, warehouse_id, date, acc)

\* market_create_stocks with the unmatched ids ahead of the matched ones
market_create_stocks_mutant(rows, ids, warehouse_id, date) ==
    LET matched == market_stocks_loop(rows, ids, warehouse_id, date, <<>>)
    IN  IF matched.raised THEN matched
        ELSE [raised |-> FALSE,
              stocks |-> [i \in 1..Len(matched.offer_ids) |->
                             market_record(matched.offer_ids[i], warehouse_id, 0, date)]
                         \o matched.stocks,
              offer_ids |-> matched.offer_ids]

market_create_stocks(rows, ids, warehouse_id, date) ==
    LET matched == market_stocks_loop(rows, ids, warehouse_id, date, <<>>)
    IN  IF matched.raised THEN matched
        ELSE [raised |-> FALSE,
              stocks |-> matched.stocks \o
                         [i \in 1..Len(matched.offer_ids) |->
                             market_record(matched.offer_ids[i], warehouse_id, 0, date)],
              offer_ids |-> matched.offer_ids]

(***************************************************************************)
(* seller.create_prices and market.create_prices.  The Yandex variant      *)
(* applies int() to the converted price and so raises when no digit        *)
(* precedes the first ".".                                                 *)
(***************************************************************************)
RECURSIVE seller_create_prices(_, _)
seller_create_prices(rows, ids) ==
    IF rows = <<>> THEN <<>>
    ELSE LET watch == Head(rows)
         IN  IF In(watch.Kod, ids)
             THEN <<[auto_action_enabled |-> "UNKNOWN",
                     currency_code |-> "RUB",
                     offer_id |-> watch.Kod,
                     old_price |-> "0",
                     price |-> price_conversion(watch.Tsena)]>>
                  \o seller_create_prices(Tail(rows), ids)
             ELSE seller_create_prices(Tail(rows), ids)

RECURSIVE market_prices_loop(_, _, _)
market_prices_loop(rows, ids, acc) ==
    IF rows = <<>> THEN [raised |-> FALSE, prices |-> acc]
    ELSE LET watch == Head(rows)
         IN  IF In(watch.Kod, ids)
             THEN IF IntRaises(price_conversion(watch.Tsena))
                  THEN [raised |-> TRUE, prices |-> acc]
                  ELSE market_prices_loop(
                           Tail(rows), ids,
                           Append(acc,
                                  [id |-> watch.Kod,
                                   price |-> [value |-> IntValue(price_conversion(watch.Tsena)),
                                              currencyId |-> "RUR"]]))
             ELSE market_prices_loop(Tail(rows), ids, acc)

\* market_create_prices zero-filling the catalog ids, as create_stocks does
market_create_prices_mutant(rows, ids) ==
    LET r == market_prices_loop(rows, ids, <<>>)
    IN  [raised |-> r.raised,
         prices |-> r.prices \o
                    [i \in 1..Len(ids) |->
                        [id |-> ids[i], price |-> [value |-> 0, currencyId |-> "RUR"]]]]

market_create_prices(rows, ids) == market_prices_loop(rows, ids, <<>>)

(***************************************************************************)
(* Inputs.                                                                 *)
(***************************************************************************)
SeqsUpTo(S, k) == UNION {[1..m -> S] : m \in 0..k}

CatalogIds == {"123", "789"}
FeedCodes == {"123", "789", "987"}
Catalogs == SeqsUpTo(CatalogIds, MaxCatalog)

Price5990 == <<"5", "'", "9", "9", "0", ".", "0", "0", " ", "r", "u", "b", ".">>
Price10990 == <<"1", "0", "'", "9", "9", "0", ".", "0", "0", " ", "r", "u", "b", ".">>
PriceNoDigits == <<"r", "u", "b", ".">>

Quantities == {<<">", "1", "0">>, <<"1">>, <<"7">>, <<"5">>, <<"1", "0">>, <<"x">>}
RawPrices == {Price5990, Price10990, PriceNoDigits}

StockRows == [Kod : FeedCodes, Kolichestvo : Quantities, Tsena : {Price5990}]
PriceRows == [Kod : FeedCodes, Kolichestvo : {<<"5">>}, Tsena : RawPrices]
MainRows == [Kod : {"123", "987"}, Kolichestvo : {<<"5">>, <<"x">>}, Tsena : {Price5990}]

PriceAlphabet == {"5", "9", "0", "'", ".", " ", "r"}
PriceInputs == SeqsUpTo(PriceAlphabet, MaxPriceLen) \cup {Price5990, Price10990}

DivideItems == {"a", "b", "c"}

Warehouse(c) == IF c = "FBS" THEN "warehouse_fbs_id" ELSE "warehouse_dbs_id"
utcnow == "2023-09-09T21:07:47Z"

\* values of the variables a specification does not use
IdleMain ==
    /\ campaign = "none" /\ pending = <<>> /\ sent = <<>>
    /\ printed = <<>> /\ exc = "none"
IdleReconcile ==
    /\ program = "none" /\ offer_ids = <<>> /\ catalog0 = <<>>
    /\ watch_remnants = <<>> /\ stocks = <<>> /\ prices = <<>>
IdleDivide == lst = <<>> /\ n = 1 /\ chunks = <<>>
IdlePrice == price = <<>> /\ converted = <<>>
IdleFetch ==
    /\ last_id = <<>> /\ page = <<>> /\ product_list = <<>>
    /\ total = 0 /\ endpoint = "none" /\ responses = <<>>
IdleUpload == not_empty = <<>>

(***************************************************************************)
(* Calls of the pure functions on enumerated arguments.                    *)
(***************************************************************************)
InitPriceConversion ==
    /\ pc = "call"
    /\ price \in PriceInputs
    /\ converted = <<>>
    /\ IdleMain /\ IdleReconcile /\ IdleDivide /\ IdleFetch /\ IdleUpload

call_price_conversion ==
    /\ pc = "call"
    /\ converted' = price_conversion(price)
    /\ pc' = "returned"
    /\ UNCHANGED <<fetchVars, not_empty, mainVars, reconcileVars, divideVars, price>>

SpecPriceConversion == InitPriceConversion /\ [][call_price_conversion]_vars

InitDivide ==
    /\ pc = "call"
    /\ lst \in SeqsUpTo(DivideItems, MaxLen)
    /\ n \in 1..MaxN
    /\ chunks = <<>>
    /\ IdleMain /\ IdleReconcile /\ IdlePrice /\ IdleFetch /\ IdleUpload

call_divide ==
    /\ pc = "call"
    /\ chunks' = divide(lst, n)
    /\ pc' = "returned"
    /\ UNCHANGED <<fetchVars, not_empty, mainVars, reconcileVars, priceVars, lst, n>>

SpecDivide == InitDivide /\ [][call_divide]_vars

InitStocks ==
    /\ pc = "call"
    /\ program \in {"seller", "market"}
    /\ watch_remnants \in SeqsUpTo(StockRows, MaxFeed)
    /\ offer_ids \in Catalogs
    /\ catalog0 = offer_ids
    /\ stocks = <<>> /\ prices = <<>>
    /\ IdleMain /\ IdleDivide /\ IdlePrice /\ IdleFetch /\ IdleUpload

call_seller_create_stocks ==
    /\ pc = "call" /\ program = "seller"
    /\ LET r == seller_create_stocks(watch_remnants, offer_ids)
       IN  /\ offer_ids' = r.offer_ids
           /\ stocks' = IF r.raised THEN <<>> ELSE r.stocks
           /\ pc' = IF r.raised THEN "raised" ELSE "returned"
    /\ UNCHANGED <<fetchVars, not_empty, mainVars, divideVars, priceVars, program, catalog0,
                   watch_remnants, prices>>

call_market_create_stocks ==
    /\ pc = "call" /\ program = "market"
    /\ LET r == market_create_stocks(watch_remnants, offer_ids,
                                     Warehouse("FBS"), utcnow)
       IN  /\ offer_ids' = r.offer_ids
           /\ stocks' = IF r.raised THEN <<>> ELSE r.stocks
           /\ pc' = IF r.raised THEN "raised" ELSE "returned"
    /\ UNCHANGED <<fetchVars, not_empty, mainVars, divideVars, priceVars, program, catalog0,
                   watch_remnants, prices>>

NextStocks == call_seller_create_stocks \/ call_market_create_stocks

SpecStocks == InitStocks /\ [][NextStocks]_vars

InitPrices ==
    /\ pc = "call"
    /\ program \in {"seller", "market"}
    /\ watch_remnants \in SeqsUpTo(PriceRows, MaxFeed)
    /\ offer_ids \in Catalogs
    /\ catalog0 = offer_ids
    /\ stocks = <<>> /\ prices = <<>>
    /\ IdleMain /\ IdleDivide /\ IdlePrice /\ IdleFetch /\ IdleUpload

call_seller_create_prices ==
    /\ pc = "call" /\ program = "seller"
    /\ prices' = seller_create_prices(watch_remnants, offer_ids)
    /\ pc' = "returned"
    /\ UNCHANGED <<fetchVars, not_empty, mainVars, divideVars, priceVars, program, offer_ids, catalog0,
                   watch_remnants, stocks>>

call_market_create_prices ==
    /\ pc = "call" /\ program = "market"
    /\ LET r == market_create_prices(watch_remnants, offer_ids)
       IN  /\ prices' = IF r.raised THEN <<>> ELSE r.prices
           /\ pc' = IF r.raised THEN "raised" ELSE "returned"
    /\ UNCHANGED <<fetchVars, not_empty, mainVars, divideVars, priceVars, program, offer_ids, catalog0,
                   watch_remnants, stocks>>

NextPrices == call_seller_create_prices \/ call_market_create_prices

SpecPrices == InitPrices /\ [][NextPrices]_vars

(***************************************************************************)
(* The orchestrators seller.main and market.main.  Every HTTP request      *)
(* either returns or raises one of the exceptions the entry points         *)
(* distinguish; a request is recorded in sent with its outcome.            *)
(* get_offer_ids is one step here: it returns the catalog or raises.       *)
(***************************************************************************)
Errors == {"ReadTimeout", "ConnectionError", "Exception"}

Request(kind, camp, body, ok) ==
    [kind |-> kind, campaign |-> camp, body |-> body, ok |-> ok]

\* the text each except clause prints
Message(e) ==
    IF e = "ReadTimeout" THEN "timeout"
    ELSE IF e = "ConnectionError" THEN "connection error"
    ELSE "ERROR_2"

Init ==
    /\ program \in {"seller", "market"}
    /\ pc = IF program = "seller" THEN "get_offer_ids" ELSE "download_stock"
    /\ campaign = IF program = "seller" THEN "OZON" ELSE "FBS"
    /\ offer_ids = <<>> /\ catalog0 = <<>> /\ watch_remnants = <<>>
    /\ stocks = <<>> /\ prices = <<>> /\ pending = <<>>
    /\ sent = <<>> /\ printed = <<>> /\ exc = "none"
    /\ IdleDivide /\ IdlePrice /\ IdleFetch /\ IdleUpload

\* ---- seller.main ----
seller_main_get_offer_ids ==
    /\ program = "seller" /\ pc = "get_offer_ids"
    /\ \/ \E cat \in Catalogs :
            /\ offer_ids' = cat
            /\ catalog0' = cat
            /\ sent' = Append(sent, Request("get_product_list", campaign, <<>>, TRUE))
            /\ pc' = "download_stock"
            /\ exc' = exc
       \/ \E e \in Errors :
            /\ sent' = Append(sent, Request("get_product_list", campaign, <<>>, FALSE))
            /\ exc' = e
            /\ pc' = "except"
            /\ UNCHANGED <<offer_ids, catalog0>>
    /\ UNCHANGED <<fetchVars, not_empty, program, campaign, watch_remnants, stocks, prices, pending,
                   printed, divideVars, priceVars>>

seller_main_download_stock ==
    /\ program = "seller" /\ pc = "download_stock"
    /\ \/ \E feed \in SeqsUpTo(MainRows, MaxFeed) :
            /\ watch_remnants' = feed
            /\ sent' = Append(sent, Request("download_stock", "feed", <<>>, TRUE))
            /\ pc' = "create_stocks"
            /\ exc' = exc
       \/ \E e \in Errors :
            /\ sent' = Append(sent, Request("download_stock", "feed", <<>>, FALSE))
            /\ exc' = e
            /\ pc' = "except"
            /\ UNCHANGED watch_remnants
    /\ UNCHANGED <<fetchVars, not_empty, program, campaign, offer_ids, catalog0, stocks, prices, pending,
                   printed, divideVars, priceVars>>

seller_main_create_stocks ==
    /\ program = "seller" /\ pc = "create_stocks"
    /\ LET r == seller_create_stocks(watch_remnants, offer_ids)
       IN  /\ offer_ids' = r.offer_ids
           /\ IF r.raised
              THEN /\ exc' = "Exception"
                   /\ pc' = "except"
                   /\ UNCHANGED <<stocks, pending>>
              ELSE /\ stocks' = r.stocks
                   /\ pending' = divide(r.stocks, OzonStockBatch)
                   /\ pc' = "update_stocks"
                   /\ exc' = exc
    /\ UNCHANGED <<fetchVars, not_empty, program, campaign, catalog0, watch_remnants, prices, sent,
                   printed, divideVars, priceVars>>

\* seller_main_update_stocks leaving the loop after the first batch
seller_main_update_stocks_mutant ==
    /\ program = "seller" /\ pc = "update_stocks"
    /\ \/ /\ pending # <<>>
          /\ sent' = Append(sent, Request("update_stocks", campaign, Head(pending), TRUE))
          /\ pending' = <<>>
          /\ UNCHANGED <<pc, exc>>
       \/ /\ pending = <<>>
          /\ pc' = "create_prices"
          /\ UNCHANGED <<sent, pending, exc>>
    /\ UNCHANGED <<fetchVars, not_empty, program, campaign, offer_ids, catalog0,
                   watch_remnants, stocks, prices, printed, divideVars, priceVars>>

seller_main_update_stocks ==
    /\ program = "seller" /\ pc = "update_stocks"
    /\ \/ /\ pending # <<>>
          /\ sent' = Append(sent, Request("update_stocks", campaign, Head(pending), TRUE))
          /\ pending' = Tail(pending)
          /\ UNCHANGED <<pc, exc>>
       \/ /\ pending # <<>>
          /\ \E e \in Errors :
               /\ sent' = Append(sent, Request("update_stocks", campaign,
                                               Head(pending), FALSE))
               /\ exc' = e
               /\ pc' = "except"
               /\ UNCHANGED pending
       \/ /\ pending = <<>>
          /\ pc' = "create_prices"
          /\ UNCHANGED <<sent, pending, exc>>
    /\ UNCHANGED <<fetchVars, not_empty, program, campaign, offer_ids, catalog0, watch_remnants, stocks,
                   prices, printed, divideVars, priceVars>>

seller_main_create_prices ==
    /\ program = "seller" /\ pc = "create_prices"
    /\ prices' = seller_create_prices(watch_remnants, offer_ids)
    /\ pending' = divide(prices', OzonPriceBatch)
    /\ pc' = "update_price"
    /\ UNCHANGED <<fetchVars, not_empty, program, campaign, offer_ids, catalog0, watch_remnants, stocks,
                   sent, printed, exc, divideVars, priceVars>>

seller_main_update_price ==
    /\ program = "seller" /\ pc = "update_price"
    /\ \/ /\ pending # <<>>
          /\ sent' = Append(sent, Request("update_price", campaign, Head(pending), TRUE))
          /\ pending' = Tail(pending)
          /\ UNCHANGED <<pc, exc>>
       \/ /\ pending # <<>>
          /\ \E e \in Errors :
               /\ sent' = Append(sent, Request("update_price", campaign,
                                               Head(pending), FALSE))
               /\ exc' = e
               /\ pc' = "except"
               /\ UNCHANGED pending
       \/ /\ pending = <<>>
          /\ pc' = "returned"
          /\ UNCHANGED <<sent, pending, exc>>
    /\ UNCHANGED <<fetchVars, not_empty, program, campaign, offer_ids, catalog0, watch_remnants, stocks,
                   prices, printed, divideVars, priceVars>>

\* seller_main_except leaving the exception unreported
seller_main_except_mutant ==
    /\ program = "seller" /\ pc = "except"
    /\ pc' = "returned"
    /\ UNCHANGED <<fetchVars, not_empty, program, campaign, offer_ids, catalog0, watch_remnants, stocks,
                   prices, pending, sent, printed, exc, divideVars, priceVars>>

seller_main_except ==
    /\ program = "seller" /\ pc = "except"
    /\ printed' = Append(printed, Message(exc))
    /\ pc' = "returned"
    /\ UNCHANGED <<fetchVars, not_empty, program, campaign, offer_ids, catalog0, watch_remnants, stocks,
                   prices, pending, sent, exc, divideVars, priceVars>>

\* ---- market.main ----
\* download_stock() is called before the try statement: an exception it
\* raises leaves main uncaught.
market_main_download_stock ==
    /\ program = "market" /\ pc = "download_stock"
    /\ \/ \E feed \in SeqsUpTo(MainRows, MaxFeed) :
            /\ watch_remnants' = feed
            /\ sent' = Append(sent, Request("download_stock", "feed", <<>>, TRUE))
            /\ pc' = "get_offer_ids"
            /\ exc' = exc
       \/ \E e \in Errors :
            /\ sent' = Append(sent, Request("download_stock", "feed", <<>>, FALSE))
            /\ exc' = e
            /\ pc' = "crashed"
            /\ UNCHANGED watch_remnants
    /\ UNCHANGED <<fetchVars, not_empty, program, campaign, offer_ids, catalog0, stocks, prices, pending,
                   printed, divideVars, priceVars>>

market_main_get_offer_ids ==
    /\ program = "market" /\ pc = "get_offer_ids"
    /\ \/ \E cat \in Catalogs :
            /\ offer_ids' = cat
            /\ catalog0' = cat
            /\ sent' = Append(sent, Request("get_product_list", campaign, <<>>, TRUE))
            /\ pc' = "create_stocks"
            /\ exc' = exc
       \/ \E e \in Errors :
            /\ sent' = Append(sent, Request("get_product_list", campaign, <<>>, FALSE))
            /\ exc' = e
            /\ pc' = "except"
            /\ UNCHANGED <<offer_ids, catalog0>>
    /\ UNCHANGED <<fetchVars, not_empty, program, campaign, watch_remnants, stocks, prices, pending,
                   printed, divideVars, priceVars>>

market_main_create_stocks ==
    /\ program = "market" /\ pc = "create_stocks"
    /\ LET r == market_create_stocks(watch_remnants, offer_ids,
                                     Warehouse(campaign), utcnow)
       IN  /\ offer_ids' = r.offer_ids
           /\ IF r.raised
              THEN /\ exc' = "Exception"
                   /\ pc' = "except"
                   /\ UNCHANGED <<stocks, pending>>
              ELSE /\ stocks' = r.stocks
                   /\ pending' = divide(r.stocks, MarketStockBatch)
                   /\ pc' = "update_stocks"
                   /\ exc' = exc
    /\ UNCHANGED <<fetchVars, not_empty, program, campaign, catalog0, watch_remnants, prices, sent,
                   printed, divideVars, priceVars>>

market_main_update_stocks ==
    /\ program = "market" /\ pc = "update_stocks"
    /\ \/ /\ pending # <<>>
          /\ sent' = Append(sent, Request("update_stocks", campaign, Head(pending), TRUE))
          /\ pending' = Tail(pending)
          /\ UNCHANGED <<pc, exc>>
       \/ /\ pending # <<>>
          /\ \E e \in Errors :
               /\ sent' = Append(sent, Request("update_stocks", campaign,
                                               Head(pending), FALSE))
               /\ exc' = e
               /\ pc' = "except"
               /\ UNCHANGED pending
       \/ /\ pending = <<>>
          /\ pc' = "upload_prices"
          /\ UNCHANGED <<sent, pending, exc>>
    /\ UNCHANGED <<fetchVars, not_empty, program, campaign, offer_ids, catalog0, watch_remnants, stocks,
                   prices, printed, divideVars, priceVars>>

\* upload_prices is declared "async def" and main calls it without awaiting
\* it or handing it to an event loop: the call only builds a coroutine
\* object, which is dropped.  No statement of upload_prices runs.
market_main_upload_prices ==
    /\ program = "market" /\ pc = "upload_prices"
    /\ IF campaign = "FBS"
       THEN campaign' = "DBS" /\ pc' = "get_offer_ids"
       ELSE campaign' = campaign /\ pc' = "returned"
    /\ UNCHANGED <<fetchVars, not_empty, program, offer_ids, catalog0, watch_remnants, stocks, prices,
                   pending, sent, printed, exc, divideVars, priceVars>>

market_main_except ==
    /\ program = "market" /\ pc = "except"
    /\ printed' = Append(printed, Message(exc))
    /\ pc' = "returned"
    /\ UNCHANGED <<fetchVars, not_empty, program, campaign, offer_ids, catalog0, watch_remnants, stocks,
                   prices, pending, sent, exc, divideVars, priceVars>>

Next ==
    \/ seller_main_get_offer_ids
    \/ seller_main_download_stock
    \/ seller_main_create_stocks
    \/ seller_main_update_stocks
    \/ seller_main_create_prices
    \/ seller_main_update_price
    \/ seller_main_except
    \/ market_main_download_stock
    \/ market_main_get_offer_ids
    \/ market_main_create_stocks
    \/ market_main_update_stocks
    \/ market_main_upload_prices
    \/ market_main_except

Spec == Init /\ [][Next]_vars

(***************************************************************************)
(* Vocabulary of the properties.                                           *)
(***************************************************************************)
\* offer id and quantity of a stock record, in either marketplace's shape
RecId(r) == IF program = "seller" THEN r.offer_id ELSE r.sku
RecQty(r) == IF program = "seller" THEN r.stock ELSE r.items[1].count

Occurrences(list, x) == Cardinality({i \in 1..Len(list) : list[i] = x})

\* the elements of seq at the positions in idx, in increasing position
RECURSIVE PickFrom(_, _, _)
PickFrom(seq, idx, i) ==
    IF i > Len(seq) THEN <<>>
    ELSE (IF i \in idx THEN <<seq[i]>> ELSE <<>>) \o PickFrom(seq, idx, i + 1)

Pick(seq, idx) == PickFrom(seq, idx, 1)

RECURSIVE Pow10(_)
Pow10(k) == IF k = 0 THEN 1 ELSE 10 * Pow10(k - 1)

\* value of a string of decimal digits, as a positional sum
RECURSIVE DecimalFrom(_, _)
DecimalFrom(s, i) ==
    IF i > Len(s) THEN 0
    ELSE DigitValue(s[i]) * Pow10(Len(s) - i) + DecimalFrom(s, i + 1)

Decimal(s) == DecimalFrom(s, 1)

\* the quantity rule of the Stock Reconciler
ClaimedQuantity(raw) ==
    CASE raw = <<">", "1", "0">> -> 100
      [] raw = <<"1">> -> 0
      [] OTHER -> Decimal(raw)

\* position of the first "." of s, or Len(s) + 1 when there is none
FirstDot(s) ==
    IF \E i \in 1..Len(s) : s[i] = "."
    THEN CHOOSE i \in 1..Len(s) :
            s[i] = "." /\ \A j \in 1..(i - 1) : s[j] # "."
    ELSE Len(s) + 1

\* the digits among the characters before the first "."
ClaimedDigits(s) ==
    Pick(s, {i \in 1..(FirstDot(s) - 1) : s[i] \in Digits})

\* feed rows that find their code in what is left of the catalog: row i is
\* matched when fewer earlier rows carry its code than the catalog has
\* occurrences of it
MatchedIdx ==
    {i \in 1..Len(watch_remnants) :
        Cardinality({j \in 1..(i - 1) : watch_remnants[j].Kod = watch_remnants[i].Kod})
            < Occurrences(catalog0, watch_remnants[i].Kod)}

\* catalog entries left over: the occurrences of an id beyond the number of
\* feed rows carrying it
UnmatchedIdx ==
    {j \in 1..Len(catalog0) :
        Cardinality({k \in 1..j : catalog0[k] = catalog0[j]})
            > Cardinality({i \in 1..Len(watch_remnants) :
                              watch_remnants[i].Kod = catalog0[j]})}

\* feed rows whose code is in the catalog
CoveredIdx ==
    {i \in 1..Len(watch_remnants) :
        \E j \in 1..Len(catalog0) : catalog0[j] = watch_remnants[i].Kod}

IdsOf(records) == [i \in 1..Len(records) |-> RecId(records[i])]
PairsOf(records) == [i \in 1..Len(records) |-> <<RecId(records[i]), RecQty(records[i])>>]

RECURSIVE Concat(_)
Concat(seqs) == IF seqs = <<>> THEN <<>> ELSE Head(seqs) \o Concat(Tail(seqs))

IsPrefix(a, b) == Len(a) <= Len(b) /\ SubSeq(b, 1, Len(a)) = a

C4_AsClaimed == pc = "returned" => offer_ids = catalog0

(***************************************************************************)
(* C5.  The returned list is the records of the matched ids in the order   *)
(* of the feed rows that matched them, followed by the records of the      *)
(* unmatched ids in the order they have in the original catalog list.      *)
(***************************************************************************)
C5_MatchedThenUnmatched ==
    pc = "returned" =>
        /\ IdsOf(stocks) =
              Pick([i \in 1..Len(watch_remnants) |-> watch_remnants[i].Kod], MatchedIdx)
              \o Pick(catalog0, UnmatchedIdx)
        /\ \A k \in 1..Len(stocks) :
              k > Cardinality(MatchedIdx) => RecQty(stocks[k]) = 0

C5_Witness ==
    /\ pc = "returned"
    /\ catalog0 = <<"123", "789">>
    /\ Len(watch_remnants) = 2
    /\ watch_remnants[1].Kod = "123" /\ watch_remnants[1].Kolichestvo = <<"5">>
    /\ watch_remnants[2].Kod = "987" /\ watch_remnants[2].Kolichestvo = <<"1", "0">>
    /\ PairsOf(stocks) = << <<"123", 5>>, <<"789", 0>> >>

(***************************************************************************)
(* C6.  The record of every matched feed row carries 100 when the raw      *)
(* quantity is ">10", 0 when it is "1", and the base-10 value of the raw   *)
(* quantity otherwise ("7" gives 7, "5" gives 5).                          *)
(***************************************************************************)
C6_QuantityMapping ==
    pc = "returned" =>
        LET matched == Pick(watch_remnants, MatchedIdx)
        IN  /\ Len(stocks) >= Len(matched)
            /\ \A k \in 1..Len(matched) :
                  LET raw == matched[k].Kolichestvo
                      qty == RecQty(stocks[k])
                  IN  /\ qty = ClaimedQuantity(raw)
                      /\ raw = <<"7">> => qty = 7
                      /\ raw = <<"5">> => qty = 5

C6_Witness ==
    /\ pc = "returned"
    /\ catalog0 = <<"123", "789">>
    /\ Len(watch_remnants) = 2
    /\ watch_remnants[1].Kod = "789" /\ watch_remnants[1].Kolichestvo = <<">", "1", "0">>
    /\ watch_remnants[2].Kod = "123" /\ watch_remnants[2].Kolichestvo = <<"1">>
    /\ PairsOf(stocks) = << <<"789", 100>>, <<"123", 0>> >>

(***************************************************************************)
(* C7.  create_prices returns, in feed-row order, one price record for     *)
(* each feed row whose code is in the catalog, carrying the price parsed   *)
(* from that row, and no other record.                                     *)
(***************************************************************************)
PriceId(r) == IF program = "seller" THEN r.offer_id ELSE r.id
PriceOf(r) == IF program = "seller" THEN Decimal(r.price) ELSE r.price.value

C7_PricesForCoveredRows ==
    pc = "returned" =>
        LET covered == Pick(watch_remnants, CoveredIdx)
        IN  /\ Len(prices) = Len(covered)
            /\ \A k \in 1..Len(covered) :
                  k <= Len(prices) =>
                      /\ PriceId(prices[k]) = covered[k].Kod
                      /\ program = "seller" =>
                            prices[k].price = ClaimedDigits(covered[k].Tsena)
                      /\ program = "market" =>
                            prices[k].price.value = Decimal(ClaimedDigits(covered[k].Tsena))

C7_Witness ==
    /\ pc = "returned"
    /\ catalog0 = <<"123", "789">>
    /\ Len(watch_remnants) = 2
    /\ watch_remnants[1].Kod = "123" /\ watch_remnants[1].Tsena = Price5990
    /\ watch_remnants[2].Kod = "987" /\ watch_remnants[2].Tsena = Price10990
    /\ Len(prices) = 1
    /\ PriceId(prices[1]) = "123"
    /\ PriceOf(prices[1]) = 5990

(***************************************************************************)
(* C8.  divide(lst, n) yields contiguous chunks in order whose             *)
(* concatenation is lst; every chunk has length n except possibly the      *)
(* last, whose length is len(lst) mod n, or n when n divides len(lst); an  *)
(* empty lst yields no chunk.                                              *)
(***************************************************************************)
C8_DividePartitions ==
    pc = "returned" =>
        /\ Concat(chunks) = lst
        /\ \A k \in 1..(Len(chunks) - 1) : Len(chunks[k]) = n
        /\ chunks # <<>> =>
              Len(chunks[Len(chunks)]) = IF Len(lst) % n = 0 THEN n ELSE Len(lst) % n
        /\ lst = <<>> => chunks = <<>>

C8_Witness ==
    /\ pc = "returned"
    /\ lst = <<"a", "b", "c", "a">>
    /\ n = 3
    /\ chunks = << <<"a", "b", "c">>, <<"a">> >>

StocksBeforePrices ==
    \A i, j \in 1..Len(sent) :
        (sent[i].kind = "update_stocks" /\ sent[j].kind = "update_price") => i < j

C2_AsClaimed ==
    (program = "seller" /\ pc = "returned" /\ exc = "none") =>
        /\ StocksBeforePrices
        /\ \A i \in CoveredIdx :
              \E m \in 1..Len(sent) :
                  /\ sent[m].kind = "update_price"
                  /\ \E q \in 1..Len(sent[m].body) :
                        sent[m].body[q].offer_id = watch_remnants[i].Kod

(***************************************************************************)
(* C3.  market.main, on a run where no request fails: for FBS and then DBS *)
(* the catalog is fetched, the stock batches are uploaded, then the price  *)
(* batches; update_price requests of FBS are submitted after the FBS stock *)
(* batches and before the DBS catalog fetch, and those of DBS before main  *)
(* returns, whenever the campaign's reconciled price list is non-empty.    *)
(***************************************************************************)
\* the price list upload_prices reconciles for the campaign just handled
CampaignPrices == market_create_prices(watch_remnants, catalog0)

PricesSubmittedFor(c) ==
    \E m \in 1..Len(sent) :
        /\ sent[m].kind = "update_price" /\ sent[m].campaign = c
        /\ \A k \in 1..Len(sent) :
              (sent[k].kind = "update_stocks" /\ sent[k].campaign = c) => k < m

C3_AsClaimed ==
    (program = "market" /\ exc = "none"
        /\ ~CampaignPrices.raised /\ CampaignPrices.prices # <<>>) =>
        /\ (pc = "get_offer_ids" /\ campaign = "DBS") => PricesSubmittedFor("FBS")
        /\ pc = "returned" => PricesSubmittedFor("DBS")

(***************************************************************************)
(* C10.  When a catalog fetch, a reconciliation step or the upload of a    *)
(* batch raises inside the try statement of seller.main or market.main,    *)
(* the exception is caught there, exactly one message is printed, main     *)
(* returns normally, no request is submitted after the failing step (in    *)
(* market.main no DBS step follows an FBS failure), and what was submitted *)
(* before stays submitted.                                                 *)
(***************************************************************************)
C10_CaughtOnceNoFurtherRequest ==
    /\ [][/\ IsPrefix(sent, sent')
          /\ exc # "none" => (sent' = sent /\ campaign' = campaign /\ exc' = exc)
          /\ pc = "except" => (pc' = "returned" /\ Len(printed') = Len(printed) + 1)
          /\ pc # "except" => printed' = printed]_vars
    /\ [](pc = "except" => (exc # "none" /\ printed = <<>> /\ ENABLED <<Next>>_vars))
    /\ [](pc = "returned" =>
             /\ Len(printed) = IF exc = "none" THEN 0 ELSE 1
             /\ exc # "none" => printed[1] = Message(exc))

C10_Witness ==
    /\ pc = "returned"
    /\ program = "market" /\ campaign = "FBS"
    /\ exc = "ConnectionError"
    /\ printed = <<"connection error">>
    /\ Len(sent) = 4
    /\ sent[3].kind = "update_stocks" /\ sent[3].ok
    /\ sent[4].kind = "update_stocks" /\ ~sent[4].ok

(***************************************************************************)
(* The coroutines upload_stocks and upload_prices of both modules, run to  *)
(* completion by a caller that awaits them.  They hold no await, so each   *)
(* runs as plain sequential code; an exception leaves the coroutine and    *)
(* reaches the awaiting caller.                                            *)
(***************************************************************************)
UploadRows ==
    [Kod : {"123", "987"}, Kolichestvo : {<<"5">>, <<"1">>, <<"x">>}, Tsena : {Price5990}]

\* seller.upload_stocks keeping the records whose stock is 0
seller_not_empty_mutant(records) == SelectSeq(records, LAMBDA stock : stock.stock = 0)

\* list(filter(lambda stock: stock.get("stock") != 0, stocks))
seller_not_empty(records) == SelectSeq(records, LAMBDA stock : stock.stock # 0)

\* list(filter(lambda stock: stock.get("items")[0].get("count") != 0, stocks))
market_not_empty(records) == SelectSeq(records, LAMBDA stock : stock.items[1].count # 0)

InitUpload ==
    /\ program \in {"seller", "market"}
    /\ pc \in {"us_get_offer_ids", "up_get_offer_ids"}
    /\ campaign \in (IF program = "seller" THEN {"OZON"} ELSE {"FBS", "DBS"})
    /\ watch_remnants \in SeqsUpTo(UploadRows, MaxFeed)
    /\ offer_ids = <<>> /\ catalog0 = <<>>
    /\ stocks = <<>> /\ prices = <<>> /\ pending = <<>>
    /\ sent = <<>> /\ printed = <<>> /\ exc = "none"
    /\ IdleDivide /\ IdlePrice /\ IdleFetch /\ IdleUpload

\* offer_ids = get_offer_ids(...) at the head of each of the four coroutines
upload_get_offer_ids ==
    /\ pc \in {"us_get_offer_ids", "up_get_offer_ids"}
    /\ \/ \E cat \in Catalogs :
            /\ offer_ids' = cat
            /\ catalog0' = cat
            /\ sent' = Append(sent, Request("get_product_list", campaign, <<>>, TRUE))
            /\ pc' = IF pc = "us_get_offer_ids" THEN "us_create_stocks"
                     ELSE "up_create_prices"
            /\ exc' = exc
       \/ \E e \in Errors :
            /\ sent' = Append(sent, Request("get_product_list", campaign, <<>>, FALSE))
            /\ exc' = e
            /\ pc' = "raised"
            /\ UNCHANGED <<offer_ids, catalog0>>
    /\ UNCHANGED <<fetchVars, not_empty, program, campaign, watch_remnants, stocks,
                   prices, pending, printed, divideVars, priceVars>>

seller_upload_stocks_create_stocks ==
    /\ program = "seller" /\ pc = "us_create_stocks"
    /\ LET r == seller_create_stocks(watch_remnants, offer_ids)
       IN  /\ offer_ids' = r.offer_ids
           /\ IF r.raised
              THEN /\ exc' = "Exception"
                   /\ pc' = "raised"
                   /\ UNCHANGED <<stocks, pending>>
              ELSE /\ stocks' = r.stocks
                   /\ pending' = divide(r.stocks, OzonStockBatch)
                   /\ pc' = "us_update_stocks"
                   /\ exc' = exc
    /\ UNCHANGED <<fetchVars, not_empty, program, campaign, catalog0, watch_remnants,
                   prices, sent, printed, divideVars, priceVars>>

market_upload_stocks_create_stocks ==
    /\ program = "market" /\ pc = "us_create_stocks"
    /\ LET r == market_create_stocks(watch_remnants, offer_ids,
                                     Warehouse(campaign), utcnow)
       IN  /\ offer_ids' = r.offer_ids
           /\ IF r.raised
              THEN /\ exc' = "Exception"
                   /\ pc' = "raised"
                   /\ UNCHANGED <<stocks, pending>>
              ELSE /\ stocks' = r.stocks
                   /\ pending' = divide(r.stocks, MarketStockBatch)
                   /\ pc' = "us_update_stocks"
                   /\ exc' = exc
    /\ UNCHANGED <<fetchVars, not_empty, program, campaign, catalog0, watch_remnants,
                   prices, sent, printed, divideVars, priceVars>>

\* the for loop of upload_stocks, then the filter and the return
seller_upload_stocks_update_stocks ==
    /\ program = "seller" /\ pc = "us_update_stocks"
    /\ \/ /\ pending # <<>>
          /\ sent' = Append(sent, Request("update_stocks", campaign, Head(pending), TRUE))
          /\ pending' = Tail(pending)
          /\ UNCHANGED <<pc, exc, not_empty>>
       \/ /\ pending # <<>>
          /\ \E e \in Errors :
               /\ sent' = Append(sent, Request("update_stocks", campaign,
                                               Head(pending), FALSE))
               /\ exc' = e
               /\ pc' = "raised"
               /\ UNCHANGED <<pending, not_empty>>
       \/ /\ pending = <<>>
          /\ not_empty' = seller_not_empty(stocks)
          /\ pc' = "us_returned"
          /\ UNCHANGED <<sent, pending, exc>>
    /\ UNCHANGED <<fetchVars, program, campaign, offer_ids, catalog0, watch_remnants,
                   stocks, prices, printed, divideVars, priceVars>>

market_upload_stocks_update_stocks ==
    /\ program = "market" /\ pc = "us_update_stocks"
    /\ \/ /\ pending # <<>>
          /\ sent' = Append(sent, Request("update_stocks", campaign, Head(pending), TRUE))
          /\ pending' = Tail(pending)
          /\ UNCHANGED <<pc, exc, not_empty>>
       \/ /\ pending # <<>>
          /\ \E e \in Errors :
               /\ sent' = Append(sent, Request("update_stocks", campaign,
                                               Head(pending), FALSE))
               /\ exc' = e
               /\ pc' = "raised"
               /\ UNCHANGED <<pending, not_empty>>
       \/ /\ pending = <<>>
          /\ not_empty' = market_not_empty(stocks)
          /\ pc' = "us_returned"
          /\ UNCHANGED <<sent, pending, exc>>
    /\ UNCHANGED <<fetchVars, program, campaign, offer_ids, catalog0, watch_remnants,
                   stocks, prices, printed, divideVars, priceVars>>

seller_upload_prices_create_prices ==
    /\ program = "seller" /\ pc = "up_create_prices"
    /\ prices' = seller_create_prices(watch_remnants, offer_ids)
    /\ pending' = divide(prices', OzonUploadPriceBatch)
    /\ pc' = "up_update_price"
    /\ UNCHANGED <<fetchVars, not_empty, program, campaign, offer_ids, catalog0,
                   watch_remnants, stocks, sent, printed, exc, divideVars, priceVars>>

market_upload_prices_create_prices ==
    /\ program = "market" /\ pc = "up_create_prices"
    /\ LET r == market_create_prices(watch_remnants, offer_ids)
       IN  IF r.raised
           THEN /\ exc' = "Exception"
                /\ pc' = "raised"
                /\ UNCHANGED <<prices, pending>>
           ELSE /\ prices' = r.prices
                /\ pending' = divide(r.prices, MarketPriceBatch)
                /\ pc' = "up_update_price"
                /\ exc' = exc
    /\ UNCHANGED <<fetchVars, not_empty, program, campaign, offer_ids, catalog0,
                   watch_remnants, stocks, sent, printed, divideVars, priceVars>>

\* the for loop of upload_prices (either module), then the return
upload_prices_update_price ==
    /\ pc = "up_update_price"
    /\ \/ /\ pending # <<>>
          /\ sent' = Append(sent, Request("update_price", campaign, Head(pending), TRUE))
          /\ pending' = Tail(pending)
          /\ UNCHANGED <<pc, exc>>
       \/ /\ pending # <<>>
          /\ \E e \in Errors :
               /\ sent' = Append(sent, Request("update_price", campaign,
                                               Head(pending), FALSE))
               /\ exc' = e
               /\ pc' = "raised"
               /\ UNCHANGED pending
       \/ /\ pending = <<>>
          /\ pc' = "up_returned"
          /\ UNCHANGED <<sent, pending, exc>>
    /\ UNCHANGED <<fetchVars, not_empty, program, campaign, offer_ids, catalog0,
                   watch_remnants, stocks, prices, printed, divideVars, priceVars>>

NextUpload ==
    \/ upload_get_offer_ids
    \/ seller_upload_stocks_create_stocks
    \/ market_upload_stocks_create_stocks
    \/ seller_upload_stocks_update_stocks
    \/ market_upload_stocks_update_stocks
    \/ seller_upload_prices_create_prices
    \/ market_upload_prices_create_prices
    \/ upload_prices_update_price

SpecUpload == InitUpload /\ [][NextUpload]_vars

(***************************************************************************)
(* C11.  upload_stocks returns (not_empty, stocks): stocks is the full     *)
(* reconciled stock list and not_empty is exactly the records of stocks    *)
(* whose quantity is not 0, in the same order.  Both marketplaces.         *)
(***************************************************************************)
\* what create_stocks returns for the feed and the catalog that was fetched
Reconciled ==
    IF program = "seller"
    THEN seller_create_stocks(watch_remnants, catalog0).stocks
    ELSE market_create_stocks(watch_remnants, catalog0, Warehouse(campaign), utcnow).stocks

C11_NotEmptyIsNonZeroSubsequence ==
    pc = "us_returned" =>
        /\ stocks = Reconciled
        /\ not_empty = Pick(stocks, {i \in 1..Len(stocks) : RecQty(stocks[i]) # 0})
        /\ PairsOf(stocks) = << <<"123", 5>>, <<"789", 0>> >> =>
              PairsOf(not_empty) = << <<"123", 5>> >>

C11_Witness ==
    /\ pc = "us_returned"
    /\ PairsOf(stocks) = << <<"123", 5>>, <<"789", 0>> >>
    /\ PairsOf(not_empty) = << <<"123", 5>> >>

(***************************************************************************)
(* seller.get_offer_ids: the loop over get_product_list.  The endpoint     *)
(* either pages through a finite catalog (catalog0), answering each cursor *)
(* with the next OzonPageLimit items, the catalog's size as total and the  *)
(* cursor of the page after, or answers anything at all ("arbitrary").     *)
(* last_id is <<>> for "" and <<k>> for the cursor after k items.  An      *)
(* arbitrary endpoint could be paged without end: it answers at most       *)
(* MaxRequests requests here, and its pages hold one id only, the loop     *)
(* looking at nothing but their length.                                    *)
(***************************************************************************)
OzonItems(ids) == [i \in 1..Len(ids) |-> [offer_id |-> ids[i]]]

\* what the paging endpoint answers to the cursor
OzonPage(cursor) ==
    LET offset == IF cursor = <<>> THEN 0 ELSE cursor[1]
        items == Slice(catalog0, offset, offset + OzonPageLimit)
    IN  [items |-> OzonItems(items),
         total |-> Len(catalog0),
         last_id |-> <<offset + Len(items)>>]

OzonResponses ==
    IF endpoint = "paged" THEN {OzonPage(last_id)}
    ELSE IF Len(sent) >= MaxRequests THEN {}
    ELSE [items : {OzonItems(ids) : ids \in SeqsUpTo({"123"}, OzonPageLimit)},
          total : 0..MaxCatalog,
          last_id : {<<1>>}]

\* the loop test with >= for ==
seller_loop_done_mutant(reported, accumulated) == Len(accumulated) >= reported

\* if total == len(product_list): break
seller_loop_done(reported, accumulated) == reported = Len(accumulated)

InitOzonFetch ==
    /\ pc = "fetch"
    /\ program = "seller"
    /\ campaign = "OZON"
    /\ endpoint \in {"paged", "arbitrary"}
    /\ catalog0 \in (IF endpoint = "paged" THEN Catalogs ELSE {<<>>})
    /\ last_id = <<>> /\ product_list = <<>> /\ total = 0
    /\ page = <<>> /\ responses = <<>>
    /\ offer_ids = <<>> /\ watch_remnants = <<>>
    /\ stocks = <<>> /\ prices = <<>> /\ pending = <<>>
    /\ sent = <<>> /\ printed = <<>> /\ exc = "none"
    /\ IdleDivide /\ IdlePrice /\ IdleUpload

\* one turn of the while loop
seller_get_offer_ids_loop ==
    /\ program = "seller" /\ pc = "fetch"
    /\ \E some_prod \in OzonResponses :
          /\ sent' = Append(sent, Request("get_product_list", campaign, last_id, TRUE))
          /\ responses' = Append(responses, some_prod)
          /\ product_list' = product_list \o some_prod.items
          /\ total' = some_prod.total
          /\ last_id' = some_prod.last_id
          /\ pc' = IF seller_loop_done(total', product_list') THEN "fetched" ELSE "fetch"
    /\ UNCHANGED <<program, campaign, offer_ids, catalog0, watch_remnants, stocks,
                   prices, pending, printed, exc, divideVars, priceVars, not_empty,
                   page, endpoint>>

\* the for loop collecting the offer ids, and the return
seller_get_offer_ids_return ==
    /\ program = "seller" /\ pc = "fetched"
    /\ offer_ids' = [i \in 1..Len(product_list) |-> product_list[i].offer_id]
    /\ pc' = "returned"
    /\ UNCHANGED <<program, campaign, catalog0, watch_remnants, stocks, prices,
                   pending, sent, printed, exc, divideVars, priceVars, not_empty,
                   fetchVars>>

NextOzonFetch == seller_get_offer_ids_loop \/ seller_get_offer_ids_return

\* the loop runs on as long as it can: nothing suspends it
SpecOzonFetch == InitOzonFetch /\ [][NextOzonFetch]_vars /\ WF_vars(NextOzonFetch)

(***************************************************************************)
(* C12.  The Ozon get_offer_ids loop stops at the first response after     *)
(* which the number of accumulated items equals the total reported in that *)
(* response and requests another page otherwise; against an endpoint that  *)
(* pages through a finite catalog it terminates; responses whose           *)
(* accumulated count never equals the reported total never let it return.  *)
(***************************************************************************)
\* number of items received with the first k responses
RECURSIVE ItemsUpTo(_)
ItemsUpTo(k) == IF k = 0 THEN 0 ELSE ItemsUpTo(k - 1) + Len(responses[k].items)

\* the k-th response reported the count accumulated with it
CountMeetsTotal(k) == responses[k].total = ItemsUpTo(k)

C12_StopsAtFirstEqualCount ==
    /\ [](pc = "fetch" => \A k \in 1..Len(responses) : ~CountMeetsTotal(k))
    /\ [](pc \in {"fetched", "returned"} =>
            /\ responses # <<>>
            /\ CountMeetsTotal(Len(responses))
            /\ \A k \in 1..(Len(responses) - 1) : ~CountMeetsTotal(k))
    /\ []((pc = "fetch" /\ OzonResponses # {}) => ENABLED <<seller_get_offer_ids_loop>>_vars)
    /\ [](pc = "returned" => Len(offer_ids) = ItemsUpTo(Len(responses)))
    /\ [](endpoint = "paged" => <>(pc = "returned" /\ offer_ids = catalog0))

C12_Witness ==
    /\ pc = "returned"
    /\ endpoint = "paged"
    /\ catalog0 = <<"123", "789", "123">>
    /\ Len(sent) = 2
    /\ offer_ids = catalog0

\* the loop still asking after a page that took the count past the total
C12_WitnessOvershoot ==
    /\ pc = "fetch"
    /\ endpoint = "arbitrary"
    /\ Len(responses) = 2
    /\ Len(product_list) > total

(***************************************************************************)
(* market.get_offer_ids: the loop over get_product_list.  The endpoint     *)
(* answers each request with any page of at most MarketPageLimit items and *)
(* any paging block: nextPageToken absent (.get gives None, written        *)
(* "None"), empty (""), or a token.  It answers at most MaxRequests        *)
(* requests.  page is "" before the first request.                         *)
(***************************************************************************)
MarketItems(ids) == [i \in 1..Len(ids) |-> [offer |-> [shopSku |-> ids[i]]]]

PageTokens == {"None", "", "token1", "token2"}

MarketResponses ==
    IF Len(sent) >= MaxRequests THEN {}
    ELSE [offerMappingEntries : {MarketItems(ids) : ids \in SeqsUpTo(CatalogIds, MarketPageLimit)},
          nextPageToken : PageTokens]

\* the loop test as "if page is None"
market_loop_done_mutant(token) == token = "None"

\* if not page: break
market_loop_done(token) == token \in {"None", ""}

InitMarketFetch ==
    /\ pc = "fetch"
    /\ program = "market"
    /\ campaign \in {"FBS", "DBS"}
    /\ endpoint = "arbitrary"
    /\ page = ""
    /\ catalog0 = <<>> /\ last_id = <<>> /\ product_list = <<>> /\ total = 0
    /\ responses = <<>>
    /\ offer_ids = <<>> /\ watch_remnants = <<>>
    /\ stocks = <<>> /\ prices = <<>> /\ pending = <<>>
    /\ sent = <<>> /\ printed = <<>> /\ exc = "none"
    /\ IdleDivide /\ IdlePrice /\ IdleUpload

\* one turn of the while loop
market_get_offer_ids_loop ==
    /\ program = "market" /\ pc = "fetch"
    /\ \E some_prod \in MarketResponses :
          /\ sent' = Append(sent, Request("get_product_list", campaign, page, TRUE))
          /\ responses' = Append(responses, some_prod)
          /\ product_list' = product_list \o some_prod.offerMappingEntries
          /\ page' = some_prod.nextPageToken
          /\ pc' = IF market_loop_done(page') THEN "fetched" ELSE "fetch"
    /\ UNCHANGED <<program, campaign, offer_ids, catalog0, watch_remnants, stocks,
                   prices, pending, printed, exc, divideVars, priceVars, not_empty,
                   last_id, total, endpoint>>

\* the for loop collecting the SKUs, and the return
market_get_offer_ids_return ==
    /\ program = "market" /\ pc = "fetched"
    /\ offer_ids' = [i \in 1..Len(product_list) |-> product_list[i].offer.shopSku]
    /\ pc' = "returned"
    /\ UNCHANGED <<program, campaign, catalog0, watch_remnants, stocks, prices,
                   pending, sent, printed, exc, divideVars, priceVars, not_empty,
                   fetchVars>>

NextMarketFetch == market_get_offer_ids_loop \/ market_get_offer_ids_return

SpecMarketFetch == InitMarketFetch /\ [][NextMarketFetch]_vars

(***************************************************************************)
(* C13.  The Yandex get_offer_ids loop sends its first request with the    *)
(* empty cursor and every later one with the nextPageToken of the response *)
(* just before it, makes at least one request, stops at the first response *)
(* whose nextPageToken is absent or empty, and returns the shopSku of      *)
(* every item of every page received, in page order and item order,        *)
(* nothing dropped or deduplicated.                                        *)
(***************************************************************************)
\* the shopSku values of the first k pages received, in order
RECURSIVE SkusUpTo(_)
SkusUpTo(k) ==
    IF k = 0 THEN <<>>
    ELSE SkusUpTo(k - 1) \o
         [i \in 1..Len(responses[k].offerMappingEntries) |->
             responses[k].offerMappingEntries[i].offer.shopSku]

NoNextPage(k) == responses[k].nextPageToken \in {"None", ""}

C13_FollowsNextPageToken ==
    /\ Len(sent) = Len(responses)
    /\ \A k \in 1..Len(sent) :
          sent[k].body = IF k = 1 THEN "" ELSE responses[k - 1].nextPageToken
    /\ pc = "fetch" => \A k \in 1..Len(responses) : ~NoNextPage(k)
    /\ pc \in {"fetched", "returned"} =>
          /\ Len(sent) >= 1
          /\ NoNextPage(Len(responses))
          /\ \A k \in 1..(Len(responses) - 1) : ~NoNextPage(k)
    /\ pc = "returned" => offer_ids = SkusUpTo(Len(responses))

C13_Witness ==
    /\ pc = "returned"
    /\ Len(sent) = 3
    /\ sent[1].body = "" /\ sent[2].body = "token2" /\ sent[3].body = "token1"
    /\ responses[3].nextPageToken = ""
    /\ offer_ids = <<"789", "789">>
    /\ Len(responses[2].offerMappingEntries) = 0

(***************************************************************************)
(* C14.  When several feed rows carry the same offer code and the code     *)
(* occurs once in the catalog, create_stocks emits a stock record for the  *)
(* first such row only, with that row's quantity; the later rows with the  *)
(* code are ignored, the id having left the remaining catalog.             *)
(***************************************************************************)
RowsWithCode(x) == {i \in 1..Len(watch_remnants) : watch_remnants[i].Kod = x}

C14_FirstDuplicateRowWins ==
    pc = "returned" =>
        \A x \in FeedCodes :
            (Cardinality(RowsWithCode(x)) >= 2 /\ Occurrences(catalog0, x) = 1) =>
                LET first == CHOOSE i \in RowsWithCode(x) :
                                 \A j \in RowsWithCode(x) : i <= j
                    at == {k \in 1..Len(stocks) : RecId(stocks[k]) = x}
                IN  /\ Cardinality(at) = 1
                    /\ \A k \in at :
                          RecQty(stocks[k]) =
                              ClaimedQuantity(watch_remnants[first].Kolichestvo)
                    /\ ~In(x, offer_ids)

C14_Witness ==
    /\ pc = "returned"
    /\ catalog0 = <<"789", "123">>
    /\ Len(watch_remnants) = 2
    /\ watch_remnants[1].Kod = "123" /\ watch_remnants[1].Kolichestvo = <<"7">>
    /\ watch_remnants[2].Kod = "123" /\ watch_remnants[2].Kolichestvo = <<"5">>
    /\ PairsOf(stocks) = << <<"123", 7>>, <<"789", 0>> >>

(***************************************************************************)
(* C16.  For feed rows with parseable quantities and any catalog list,     *)
(* repeated ids included, the list create_stocks returns is as long as the *)
(* catalog list passed in and holds the same multiset of offer ids: each   *)
(* match takes one occurrence out of the remaining catalog and emits one   *)
(* record, each remaining occurrence emits one zero-quantity record.       *)
(***************************************************************************)
Parseable(raw) == raw # <<>> /\ \A i \in 1..Len(raw) : raw[i] \in Digits

AllParseable ==
    \A i \in 1..Len(watch_remnants) :
        LET raw == watch_remnants[i].Kolichestvo
        IN  raw = <<">", "1", "0">> \/ Parseable(raw)

C16_SameMultisetAsCatalog ==
    /\ (pc # "call" /\ AllParseable) => pc = "returned"
    /\ pc = "returned" =>
          /\ Len(stocks) = Len(catalog0)
          /\ \E f \in Permutations(1..Len(catalog0)) :
                \A i \in 1..Len(catalog0) :
                    i <= Len(stocks) /\ RecId(stocks[i]) = catalog0[f[i]]
          /\ Len(offer_ids) + Cardinality(MatchedIdx) = Len(catalog0)
          /\ \A k \in 1..Len(stocks) :
                k > Cardinality(MatchedIdx) =>
                    /\ RecQty(stocks[k]) = 0
                    /\ RecId(stocks[k]) = offer_ids[k - Cardinality(MatchedIdx)]

C16_Witness ==
    /\ pc = "returned"
    /\ catalog0 = <<"123", "789", "123">>
    /\ Len(watch_remnants) = 1
    /\ watch_remnants[1].Kod = "123" /\ watch_remnants[1].Kolichestvo = <<"5">>
    /\ PairsOf(stocks) = << <<"123", 5>>, <<"789", 0>>, <<"123", 0>> >>

(***************************************************************************)
(* Every entry point that runs an upload loop: the two main functions and  *)
(* the four upload coroutines.                                             *)
(***************************************************************************)
InitLoops == Init \/ InitUpload

NextLoops == Next \/ NextUpload

SpecLoops == InitLoops /\ [][NextLoops]_vars

(***************************************************************************)
(* C15.  In every stock or price upload loop, on a run where no request    *)
(* fails, the batches are submitted one at a time in list order, batch     *)
(* k+1 only after the response to batch k, every submitted batch is        *)
(* non-empty and has at most n records, each reconciled record is          *)
(* submitted in exactly one batch, and no request is made when the         *)
(* reconciled list is empty.                                               *)
(***************************************************************************)
\* the batches submitted so far by requests of the kind for the campaign
Bodies(kind) ==
    LET reqs == SelectSeq(sent, LAMBDA r : r.kind = kind /\ r.campaign = campaign)
    IN  [i \in 1..Len(reqs) |-> reqs[i].body]

\* the chunk size n of the loop the entry point is in
StockLimit == IF program = "seller" THEN OzonStockBatch ELSE MarketStockBatch
PriceLimit ==
    IF program = "market" THEN MarketPriceBatch
    ELSE IF pc \in {"up_update_price", "up_returned"} THEN OzonUploadPriceBatch
    ELSE OzonPriceBatch

UploadKinds == {"update_stocks", "update_price"}

C15_LoopState ==
    exc = "none" =>
        /\ \A m \in 1..Len(sent) :
              /\ sent[m].kind = "update_stocks" =>
                    sent[m].body # <<>> /\ Len(sent[m].body) <= StockLimit
              /\ sent[m].kind = "update_price" =>
                    sent[m].body # <<>> /\ Len(sent[m].body) <= PriceLimit
        /\ pc \in {"update_stocks", "us_update_stocks"} =>
              Concat(Bodies("update_stocks")) \o Concat(pending) = stocks
        /\ pc \in {"create_prices", "upload_prices", "us_returned"} =>
              Concat(Bodies("update_stocks")) = stocks
        /\ pc \in {"update_price", "up_update_price"} =>
              Concat(Bodies("update_price")) \o Concat(pending) = prices
        /\ (pc = "up_returned" \/ (pc = "returned" /\ program = "seller")) =>
              Concat(Bodies("update_price")) = prices
        /\ (stocks = <<>> /\ pc \notin {"get_offer_ids", "download_stock", "create_stocks"}) =>
              Bodies("update_stocks") = <<>>
        /\ prices = <<>> => Bodies("update_price") = <<>>

\* a step submits at most one request; an upload request carries the head of
\* the batches still to go, and the loop moves on once it is answered
C15_LoopStep ==
    /\ Len(sent') <= Len(sent) + 1
    /\ (Len(sent') = Len(sent) + 1 /\ sent'[Len(sent')].kind \in UploadKinds) =>
          /\ pending # <<>>
          /\ sent'[Len(sent')].body = Head(pending)
          /\ sent'[Len(sent')].ok => pending' = Tail(pending)
    /\ (pending' # pending /\ pc \in {"update_stocks", "us_update_stocks",
                                      "update_price", "up_update_price"}) =>
          Len(sent') = Len(sent) + 1

C15_BatchesInOrderExactlyOnce == [](C15_LoopState) /\ [][C15_LoopStep]_vars

C15_Witness ==
    /\ program = "seller" /\ pc = "create_prices" /\ exc = "none"
    /\ Len(stocks) = 3
    /\ Len(sent) = 4
    /\ sent[3].kind = "update_stocks" /\ Len(sent[3].body) = 2
    /\ sent[4].kind = "update_stocks" /\ Len(sent[4].body) = 1

====
